---- MODULE Spec2Model ----
(***************************************************************************)
(* fs-dkr: join messages of the key-refresh protocol and the Ring-Pedersen *)
(* proof.  Model of src/src/add_party_message.rs and                       *)
(* src/src/ring_pedersen_proof.rs.                                         *)
(*                                                                         *)
(* Numbers are scaled down: Paillier moduli are products of two small odd  *)
(* primes, the curve is the additive group of integers modulo the prime    *)
(* CurveOrder with an explicit generator, a byte has ByteBits bits.        *)
(***************************************************************************)
EXTENDS Integers, Sequences, FiniteSets, TLC

VARIABLES
    \* ---- ring_pedersen_proof.rs ----
    rpPc,           \* "init" | "generated" | "proved" | "panic" | "verified"
    statement,      \* RingPedersenStatement  [S, T, N, phi]
    witness,        \* RingPedersenWitness    [p, q, lambda]
    proof,          \* RingPedersenProof      [A, Z, bitwise_e]
    tampered,       \* round whose response was altered after prove (0: none)
    verifyResult,   \* result of the last verify: "none" | "Ok" | "Err" | "panic"
    \* ---- add_party_message.rs: generate_h1_h2_n_tilde, generate_dlog_statement_proofs ----
    genPc,          \* "start" | "loop" | "found" | "returned" | "proved"
    gen,            \* locals of generate_h1_h2_n_tilde (continued: the loop has
                    \* taken its `continue` branch)
    genOut,         \* the tuple generate_h1_h2_n_tilde returns
    dlogOut,        \* what generate_dlog_statement_proofs returns
    \* ---- add_party_message.rs: JoinMessage ----
    joins,          \* joining party -> its JoinMessage (None before distribute)
    keys,           \* joining party -> the Keys distribute returned to it
    lastSet,        \* joining party -> argument of its latest set_party_index
    getResult,      \* the latest get_party_index call: [who, result]
    batch,          \* arguments of collect: [refresh_messages, t, n]
    localKey        \* the latest collect call: [who, join_messages, result]

rpVars   == <<rpPc, statement, witness, proof, tampered, verifyResult>>
genVars  == <<genPc, gen, genOut, dlogOut>>
joinVars == <<joins, keys, lastSet, getResult, batch, localKey>>
vars     == <<rpVars, genVars, joinVars>>

\* Option<T>: None and Some(v)
None == <<>>
Some(v) == <<v>>
unwrap(o) == o[1]

-----------------------------------------------------------------------------
(* Bounds of the model *)

\* number of Ring-Pedersen rounds (crate::M_SECURITY, 256 in the crate)
M_SECURITY == 2
\* bytes of the digest H produces (32 for SHA-256)
DigestBytes == 2
\* bits of a byte (8 in the program)
ByteBits == 1

-----------------------------------------------------------------------------
(* curv::BigInt arithmetic *)

RECURSIVE Pow(_, _)
Pow(b, e) == IF e = 0 THEN 1 ELSE b * Pow(b, e - 1)

\* BigInt::mod_pow(base, exponent, modulus)
RECURSIVE mod_pow(_, _, _)
mod_pow(b, e, m) == IF e = 0 THEN 1 % m ELSE ((b % m) * mod_pow(b, e - 1, m)) % m

\* BigInt::mod_mul(a, b, modulus)
mod_mul(a, b, m) == ((a % m) * (b % m)) % m

\* BigInt::mod_add(a, b, modulus)
mod_add(a, b, m) == ((a % m) + (b % m)) % m

\* BigInt::mod_inv(a, modulus): Some(inverse) or None
mod_inv(a, m) ==
    IF \E x \in 0..(m - 1) : (a * x) % m = 1 % m
    THEN Some(CHOOSE x \in 0..(m - 1) : (a * x) % m = 1 % m)
    ELSE None

\* a sampler that only ever draws even numbers
sample_below_even(upper) == {x \in 0..(upper - 1) : x % 2 = 0}

\* BigInt::sample_below(upper): the values a sample can take
sample_below(upper) == 0..(upper - 1)

\* the prime pairs Paillier::keypair_with_modulus_size can return (scaled)
PrimePairs == {<<3, 5>>, <<3, 7>>, <<5, 7>>, <<3, 11>>}

\* Paillier::keypair_with_modulus_size(..).keys(): (ek, dk)
Keypairs == {[ek |-> [n |-> pq[1] * pq[2], nn |-> (pq[1] * pq[2]) * (pq[1] * pq[2])],
              dk |-> [p |-> pq[1], q |-> pq[2]]] : pq \in PrimePairs}

-----------------------------------------------------------------------------
(* ring_pedersen_proof.rs *)

\* the key pairs RingPedersenStatement::generate draws from in this model
RPKeypairs == {kp \in Keypairs : kp.ek.n = 15}

\* RingPedersenStatement::generate with the samples r and lambda made explicit
generate(kp, r, lambda) ==
    LET phi == (kp.dk.p - 1) * (kp.dk.q - 1)
        t   == mod_pow(r, 2, kp.ek.n)
        s   == mod_pow(t, lambda, kp.ek.n)
    IN  [statement |-> [S |-> s, T |-> t, N |-> kp.ek.n, phi |-> phi],
         witness   |-> [p |-> kp.dk.p, q |-> kp.dk.q, lambda |-> lambda]]

\* the values H::result_bigint() can take
Digests == 0..(Pow(2, DigestBytes * ByteBits) - 1)

\* number of bytes of a positive integer, most significant byte not zero
RECURSIVE ByteLen(_)
ByteLen(e) == IF e = 0 THEN 0 ELSE 1 + ByteLen(e \div Pow(2, ByteBits))

\* BigInt::to_bytes: big-endian bytes without leading zero bytes; the bytes of
\* zero depend on the big-number backend (none, or one zero byte)
to_bytes(e) ==
    IF e = 0
    THEN {<<>>, <<0>>}
    ELSE {[k \in 1..ByteLen(e) |->
             (e \div Pow(2, ByteBits * (ByteLen(e) - k))) % Pow(2, ByteBits)]}

\* BitVec::from(bytes.as_bits()): the bits of each byte in turn, least
\* significant bit first
as_bits(bytes) ==
    [i \in 1..(Len(bytes) * ByteBits) |->
        (bytes[((i - 1) \div ByteBits) + 1] \div Pow(2, (i - 1) % ByteBits)) % 2 = 1]

\* the bit vectors prove can derive from the commitments
BitVecs == UNION {{as_bits(b) : b \in to_bytes(e)} : e \in Digests}

\* the second loop of prove: the response of round i
Response(a, bitwise_e, w, st, i) ==
    LET e_i == IF bitwise_e[i] THEN 1 ELSE 0
    IN  mod_add(a[i], e_i * w.lambda, st.phi)

\* bitwise_e[i] for i in 0..M_SECURITY panics when the bit vector is shorter
IndexPanics(bitwise_e) == Len(bitwise_e) < M_SECURITY

\* RingPedersenProof::prove with the masks a and the challenge bits made
\* explicit (defined when no index panics)
prove(w, st, a, bitwise_e) ==
    [A         |-> [i \in 1..M_SECURITY |-> mod_pow(st.T, a[i], st.N)],
     Z         |-> [i \in 1..M_SECURITY |-> Response(a, bitwise_e, w, st, i)],
     bitwise_e |-> bitwise_e]

\* the comparison verify makes in round i
RoundHolds(pf, st, i) ==
    LET e_i == IF pf.bitwise_e[i] THEN 1 ELSE 0
    IN  mod_pow(st.T, pf.Z[i], st.N) = mod_mul(pf.A[i], mod_pow(st.S, e_i, st.N), st.N)

\* RingPedersenProof::verify: every round evaluates the comparison, the body
\* of the `if` is empty, and the function ends in Ok(())
verify(pf, st) ==
    IF IndexPanics(pf.bitwise_e)
    THEN "panic"
    ELSE LET compared == [i \in 1..M_SECURITY |-> RoundHolds(pf, st, i)]
         IN  "Ok"

NoStatement == [S |-> 0, T |-> 0, N |-> 0, phi |-> 0]
NoWitness   == [p |-> 0, q |-> 0, lambda |-> 0]
NoProof     == [A |-> <<>>, Z |-> <<>>, bitwise_e |-> <<>>]

RPInit ==
    /\ rpPc = "init"
    /\ statement = NoStatement
    /\ witness = NoWitness
    /\ proof = NoProof
    /\ tampered = 0
    /\ verifyResult = "none"

Generate ==
    /\ rpPc = "init"
    /\ \E kp \in RPKeypairs :
         \E r \in sample_below(kp.ek.n) :
           \E lambda \in sample_below((kp.dk.p - 1) * (kp.dk.q - 1)) :
             /\ statement' = generate(kp, r, lambda).statement
             /\ witness' = generate(kp, r, lambda).witness
    /\ rpPc' = "generated"
    /\ UNCHANGED <<proof, tampered, verifyResult, genVars, joinVars>>

Prove ==
    /\ rpPc = "generated"
    /\ \E a \in [1..M_SECURITY -> sample_below(statement.phi)] :
         \E bitwise_e \in BitVecs :
           IF IndexPanics(bitwise_e)
           THEN /\ rpPc' = "panic"
                /\ proof' = proof
           ELSE /\ rpPc' = "proved"
                /\ proof' = prove(witness, statement, a, bitwise_e)
    /\ UNCHANGED <<statement, witness, tampered, verifyResult, genVars, joinVars>>

\* a party alters a proof in transit: one response incremented by 1
Tamper ==
    /\ rpPc = "proved"
    /\ tampered = 0
    /\ \E k \in 1..M_SECURITY :
         /\ proof' = [proof EXCEPT !.Z[k] = @ + 1]
         /\ tampered' = k
    /\ UNCHANGED <<rpPc, statement, witness, verifyResult, genVars, joinVars>>

Verify ==
    /\ rpPc = "proved"
    /\ verifyResult' = verify(proof, statement)
    /\ rpPc' = "verified"
    /\ UNCHANGED <<statement, witness, proof, tampered, genVars, joinVars>>

RPNext == Generate \/ Prove \/ Tamper \/ Verify

\* C1: verify reports a failure for every proof in which some round violates
\* T^Z_k mod N = A_k * S^e_k mod N (in particular for a proof of prove with
\* one response incremented by 1 that no longer satisfies its round).
C1_VerifyRejectsFailingRound ==
    (rpPc = "verified" /\ \E k \in 1..M_SECURITY : ~RoundHolds(proof, statement, k))
        => verifyResult = "Err"

\* C2: every proof built by prove from a statement/witness pair of generate
\* satisfies the verifier's equation in every round.
C2_ProveSatisfiesEveryRound ==
    (rpPc = "proved" /\ tampered = 0)
        => \A k \in 1..M_SECURITY : RoundHolds(proof, statement, k)

\* C11: for every hash output prove derives exactly M_SECURITY challenge
\* bits: no index bitwise_e[k] of prove or verify is out of the bit sequence
\* (prove has no failure path), and the returned proof has M_SECURITY
\* commitments, responses and challenge bits.
C11_ExactlyMSecurityBits ==
    /\ rpPc # "panic"
    /\ verifyResult # "panic"
    /\ rpPc \in {"proved", "verified"} =>
           /\ Len(proof.A) = M_SECURITY
           /\ Len(proof.Z) = M_SECURITY
           /\ Len(proof.bitwise_e) = M_SECURITY

-----------------------------------------------------------------------------
(* add_party_message.rs: the Pedersen parameter generator *)

\* a generator that returns the exponent of h2 itself (line 67 left out)
generate_h1_h2_n_tilde_plain(kp, h1, xhi_) ==
    LET phi == (kp.dk.p - 1) * (kp.dk.q - 1)
        inv == unwrap(mod_inv(xhi_, phi))
        h2  == mod_pow(h1, xhi_, kp.ek.n)
    IN  [N |-> kp.ek.n, h1 |-> h1, h2 |-> h2, xhi |-> xhi_, xhi_inv |-> phi - inv]

\* generate_h1_h2_n_tilde after its loop has left with the invertible sample
\* xhi_ (inv = mod_inv(xhi_, phi)): the tuple it returns
generate_h1_h2_n_tilde(kp, h1, xhi_) ==
    LET phi == (kp.dk.p - 1) * (kp.dk.q - 1)
        inv == unwrap(mod_inv(xhi_, phi))
        h2  == mod_pow(h1, xhi_, kp.ek.n)
    IN  [N |-> kp.ek.n, h1 |-> h1, h2 |-> h2, xhi |-> phi - xhi_, xhi_inv |-> phi - inv]

\* DLogStatement { N, g, ni }
DLogStatement(N, g, ni) == [N |-> N, g |-> g, ni |-> ni]

\* CompositeDLogProof::prove(statement, secret) of zk-paillier: opaque, it
\* records what was proved with which exponent
CompositeDLogProof(st, secret) == [statement |-> st, secret |-> secret]

\* the proofs with the exponent xhi as the witness of both
generate_dlog_statement_proofs_one_exponent(params) ==
    LET dlog_statement_base_h1 == DLogStatement(params.N, params.h1, params.h2)
        dlog_statement_base_h2 == DLogStatement(params.N, params.h2, params.h1)
    IN  [dlog_statement               |-> dlog_statement_base_h1,
         composite_dlog_proof_base_h1 |->
             CompositeDLogProof(dlog_statement_base_h1, params.xhi),
         composite_dlog_proof_base_h2 |->
             CompositeDLogProof(dlog_statement_base_h2, params.xhi)]

\* generate_dlog_statement_proofs on the tuple of generate_h1_h2_n_tilde
generate_dlog_statement_proofs(params) ==
    LET dlog_statement_base_h1 == DLogStatement(params.N, params.h1, params.h2)
        dlog_statement_base_h2 == DLogStatement(params.N, params.h2, params.h1)
    IN  [dlog_statement               |-> dlog_statement_base_h1,
         composite_dlog_proof_base_h1 |->
             CompositeDLogProof(dlog_statement_base_h1, params.xhi),
         composite_dlog_proof_base_h2 |->
             CompositeDLogProof(dlog_statement_base_h2, params.xhi_inv)]

GenInit ==
    /\ genPc = "start"
    /\ gen = None
    /\ genOut = None
    /\ dlogOut = None

\* lines 55..58: the key pair, phi and h1
GenKeypair ==
    /\ genPc = "start"
    /\ \E kp \in Keypairs :
         \E h1 \in sample_below(kp.ek.n) :
           gen' = [kp |-> kp, phi |-> (kp.dk.p - 1) * (kp.dk.q - 1), h1 |-> h1,
                   xhi_ |-> 0, continued |-> FALSE]
    /\ genPc' = "loop"
    /\ UNCHANGED <<genOut, dlogOut, rpVars, joinVars>>

\* lines 59..65, one iteration of the loop: a sample without inverse continues
GenResample ==
    /\ genPc = "loop"
    /\ \E xhi_ \in sample_below(gen.phi) :
         /\ mod_inv(xhi_, gen.phi) = None
         /\ gen' = [gen EXCEPT !.xhi_ = xhi_, !.continued = TRUE]
    /\ UNCHANGED <<genPc, genOut, dlogOut, rpVars, joinVars>>

\* lines 59..69: a sample with an inverse breaks the loop, the tuple is returned
GenReturn ==
    /\ genPc = "loop"
    /\ \E xhi_ \in sample_below(gen.phi) :
         /\ mod_inv(xhi_, gen.phi) # None
         /\ gen' = [gen EXCEPT !.xhi_ = xhi_]
         /\ genOut' = generate_h1_h2_n_tilde(gen.kp, gen.h1, xhi_)
    /\ genPc' = "returned"
    /\ UNCHANGED <<dlogOut, rpVars, joinVars>>

\* lines 74..95: the statements and the proofs
GenDlogProofs ==
    /\ genPc = "returned"
    /\ dlogOut' = generate_dlog_statement_proofs(genOut)
    /\ genPc' = "proved"
    /\ UNCHANGED <<gen, genOut, rpVars, joinVars>>

GenNext == GenKeypair \/ GenResample \/ GenReturn \/ GenDlogProofs

\* C10 as stated: the returned lambda is invertible modulo phi with
\* h2 = h1^lambda mod N, and the returned x is (phi - lambda^-1) mod phi.
C10_AsStated ==
    genPc \in {"returned", "proved"} =>
        /\ mod_inv(genOut.xhi, gen.phi) # None
        /\ genOut.h2 = mod_pow(genOut.h1, genOut.xhi, genOut.N)
        /\ genOut.xhi_inv = (gen.phi - unwrap(mod_inv(genOut.xhi, gen.phi))) % gen.phi

\* C10 amended: the returned lambda is invertible modulo phi and is the
\* negation modulo phi of the exponent of h2 (h2 = h1^(phi - lambda) mod N);
\* the returned x is the modular inverse of the returned lambda, which is the
\* negation modulo phi of the inverse of the exponent of h2.
C10_NegatedExponents ==
    genPc \in {"returned", "proved"} =>
        /\ genOut.xhi \in 1..(gen.phi - 1)
        /\ mod_inv(genOut.xhi, gen.phi) # None
        /\ genOut.h2 = mod_pow(genOut.h1, gen.phi - genOut.xhi, genOut.N)
        /\ Some(genOut.xhi_inv) = mod_inv(genOut.xhi, gen.phi)
        /\ genOut.xhi_inv = (gen.phi - unwrap(mod_inv(gen.phi - genOut.xhi, gen.phi))) % gen.phi

\* C10 witness: a tuple was returned whose lambda differs from the exponent
\* of h2 and does not give h2
C10_Witness ==
    /\ genPc = "returned"
    /\ genOut.xhi # gen.xhi_
    /\ genOut.h2 # mod_pow(genOut.h1, genOut.xhi, genOut.N)

\* C14: generate_dlog_statement_proofs builds both statements from one
\* parameter generation: they carry the same N with g and ni swapped (first
\* g = h1, ni = h2; second g = h2, ni = h1), the returned statement is the
\* first, and the witnesses of the two proofs are inverses modulo phi(N).
C14_DualStatements ==
    genPc = "proved" =>
        LET first  == dlogOut.composite_dlog_proof_base_h1
            second == dlogOut.composite_dlog_proof_base_h2
        IN  /\ first.statement = [N |-> genOut.N, g |-> genOut.h1, ni |-> genOut.h2]
            /\ second.statement = [N |-> genOut.N, g |-> genOut.h2, ni |-> genOut.h1]
            /\ genOut.N = gen.kp.ek.n
            /\ dlogOut.dlog_statement = first.statement
            /\ first.secret \in 0..(gen.phi - 1)
            /\ second.secret \in 0..(gen.phi - 1)
            /\ (first.secret * second.secret) % gen.phi = 1

\* C14 witness: the proofs were made for h1 # h2 with two different exponents
C14_Witness ==
    /\ genPc = "proved"
    /\ genOut.h1 # genOut.h2
    /\ dlogOut.composite_dlog_proof_base_h1.secret
           # dlogOut.composite_dlog_proof_base_h2.secret

-----------------------------------------------------------------------------
(* The curve E, scalars and points; Paillier *)

\* largest group size n of the model
MaxN == 4

IsPrime(x) == x > 1 /\ \A d \in 2..(x - 1) : x % d # 0

\* order of the curve group: the smallest prime above MaxN, so that the party
\* positions 1..n are distinct non-zero scalars
CurveOrder ==
    CHOOSE x \in (MaxN + 1)..(2 * MaxN + 2) :
        IsPrime(x) /\ \A y \in (MaxN + 1)..(x - 1) : ~IsPrime(y)

\* Point::<E>::generator(): points are written as residues modulo CurveOrder
Generator == 2

\* Scalar::<E>::from(&BigInt)
ScalarFrom(x) == x % CurveOrder

\* point * scalar and point + point
PointMul(P, k) == (P * k) % CurveOrder
PointAdd(P, R) == (P + R) % CurveOrder

\* Paillier ciphertexts carry the modulus of their key and the plaintext
Encrypt(ek, m) == [n |-> ek.n, m |-> m % ek.n]
\* what the homomorphic operations of a key make of ciphertexts of another key
NotOfKey == [n |-> 0, m |-> 0]
PaillierMul(ek, c, k) ==
    IF c.n = ek.n THEN [n |-> ek.n, m |-> (c.m * k) % ek.n] ELSE NotOfKey
PaillierAdd(ek, c1, c2) ==
    IF c1.n = ek.n /\ c2.n = ek.n
    THEN [n |-> ek.n, m |-> (c1.m + c2.m) % ek.n]
    ELSE NotOfKey
\* Paillier::decrypt(dk, c): the plaintext of a ciphertext of the key of dk;
\* of any other ciphertext it makes some number, here `other`
Decrypt(dk, c, other) == IF c.n = dk.p * dk.q THEN c.m ELSE other

Ok(v)  == [tag |-> "Ok", value |-> v]
Err(e) == [tag |-> "Err", error |-> e]
Panic  == [tag |-> "panic"]
\* the panic of Option::unwrap on None
UnwrapPanic == [tag |-> "panic", at |-> "party_index.unwrap()"]

-----------------------------------------------------------------------------
(* RefreshMessage: the collaborator of collect *)

\* value at x of the polynomial with coefficients poly[1], poly[2], ...
RECURSIVE Eval(_, _)
Eval(poly, x) ==
    IF poly = <<>> THEN 0 ELSE (poly[1] + x * Eval(Tail(poly), x)) % CurveOrder

\* the refresh message of the party at idx that re-shares with polynomial
\* poly among the positions 1..n, position p holding the key ekAt[p]
RefreshMessage(idx, poly, pk, ek, st, n, ekAt) ==
    [party_index          |-> idx,
     ek                   |-> ek,
     dlog_statement       |-> st,
     points_committed_vec |-> [p \in 1..n |-> PointMul(Generator, Eval(poly, p))],
     points_encrypted_vec |-> [p \in 1..n |-> Encrypt(ekAt[p], Eval(poly, p))],
     public_key           |-> pk]

\* RefreshMessage::validate_collect(refresh_messages, t, n)
validate_collect(refresh_messages, t, n) ==
    IF Len(refresh_messages) <= t
    THEN Err("PartiesThresholdViolation")
    ELSE IF \E j \in 1..Len(refresh_messages) :
                \/ Len(refresh_messages[j].points_committed_vec) # n
                \/ Len(refresh_messages[j].points_encrypted_vec) # n
         THEN Err("SizeMismatchError")
         ELSE Ok(<<>>)

RECURSIVE Product(_)
Product(xs) == IF xs = <<>> THEN 1 ELSE (xs[1] * Product(Tail(xs))) % CurveOrder

\* Lagrange coefficient at 0 of the point x among the points xs
Lagrange(x, xs) ==
    LET rest == SelectSeq(xs, LAMBDA y : y # x)
        num  == Product(rest)
        den  == Product([k \in 1..Len(rest) |-> (rest[k] - x) % CurveOrder])
    IN  (num * unwrap(mod_inv(den, CurveOrder))) % CurveOrder

RECURSIVE CipherSum(_, _, _, _, _)
CipherSum(refresh_messages, li_vec, party_index, ek, j) ==
    IF j = 0
    THEN Encrypt(ek, 0)
    ELSE PaillierAdd(ek,
             CipherSum(refresh_messages, li_vec, party_index, ek, j - 1),
             PaillierMul(ek, refresh_messages[j].points_encrypted_vec[party_index],
                         li_vec[j]))

\* RefreshMessage::get_ciphertext_sum(refresh_messages, party_index, parameters, ek):
\* the first t+1 messages, weighted by their Lagrange coefficients
get_ciphertext_sum(refresh_messages, party_index, t, ek) ==
    LET indices == [j \in 1..(t + 1) |-> refresh_messages[j].party_index]
        li_vec  == [j \in 1..(t + 1) |-> Lagrange(indices[j], indices)]
    IN  [cipher_text_sum |-> CipherSum(refresh_messages, li_vec, party_index, ek, t + 1),
         li_vec          |-> li_vec]

\* get_ciphertext_sum reads points_encrypted_vec[party_index - 1]
CiphertextIndexPanics(party_index, n) == party_index \notin 1..n

-----------------------------------------------------------------------------
(* add_party_message.rs: JoinMessage *)

\* NiCorrectKeyProof::proof(dk, None): opaque, it records the modulus proved
NiCorrectKeyProof(dk) == [n |-> dk.p * dk.q]

\* JoinMessage::distribute with the Paillier key pair and the tuple of
\* generate_h1_h2_n_tilde that it draws made explicit: (join_message, keys)
distribute(kp, params) ==
    LET dlog == generate_dlog_statement_proofs(params)
    IN  [join_message |->
             [ek                           |-> kp.ek,
              dk_correctness_proof         |-> NiCorrectKeyProof(kp.dk),
              dlog_statement               |-> dlog.dlog_statement,
              composite_dlog_proof_base_h1 |-> dlog.composite_dlog_proof_base_h1,
              composite_dlog_proof_base_h2 |-> dlog.composite_dlog_proof_base_h2,
              party_index                  |-> None],
         keys |-> kp]

\* JoinMessage::set_party_index
set_party_index(msg, new_party_index) ==
    [msg EXCEPT !.party_index = Some(new_party_index)]

\* get_party_index with unwrap_or_default in place of ok_or
get_party_index_default(msg) ==
    IF msg.party_index = None THEN Ok(0) ELSE Ok(unwrap(msg.party_index))

\* JoinMessage::get_party_index
get_party_index(msg) ==
    IF msg.party_index = None
    THEN Err("NewPartyUnassignedIndexError")
    ELSE Ok(unwrap(msg.party_index))

\* collect without the loop of lines 152..154
check_join_indices_skipped(join_messages) == Ok(<<>>)

\* collect, lines 152..154: every other join message has an index
check_join_indices(join_messages) ==
    IF \E j \in 1..Len(join_messages) : get_party_index(join_messages[j]).tag = "Err"
    THEN Err("NewPartyUnassignedIndexError")
    ELSE Ok(<<>>)

\* the entry of pk_vec without the loop of lines 184..189
pk_entry_first(refresh_messages, li_vec, i, j) ==
    PointMul(refresh_messages[1].points_committed_vec[i], li_vec[1])

\* collect, lines 180..189: entry i of pk_vec after the terms 1..j
RECURSIVE pk_entry(_, _, _, _)
pk_entry(refresh_messages, li_vec, i, j) ==
    IF j = 1
    THEN PointMul(refresh_messages[1].points_committed_vec[i], li_vec[1])
    ELSE PointAdd(pk_entry(refresh_messages, li_vec, i, j - 1),
                  PointMul(refresh_messages[j].points_committed_vec[i], li_vec[j]))

\* the accumulation stopping one contributor early
pk_vec_of_short(refresh_messages, li_vec, t, n) ==
    [i \in 1..n |-> pk_entry(refresh_messages, li_vec, i, t)]

\* collect, lines 180..189
pk_vec_of(refresh_messages, li_vec, t, n) ==
    [i \in 1..n |-> pk_entry(refresh_messages, li_vec, i, t + 1)]

\* join_message.party_index.unwrap() in lines 201 and 214
unwrap_panics(join_messages) ==
    \E j \in 1..Len(join_messages) : join_messages[j].party_index = None

\* collect, lines 194..203: the (index, key) pairs in the order they enter
\* the HashMap
available_parties(refresh_messages, party_index, paillier_key, join_messages) ==
    [j \in 1..Len(refresh_messages) |->
        <<refresh_messages[j].party_index, refresh_messages[j].ek>>]
    \o << <<party_index, paillier_key.ek>> >>
    \o [j \in 1..Len(join_messages) |->
        <<unwrap(join_messages[j].party_index), join_messages[j].ek>>]

\* collect, lines 208..218
available_h1_h2_ntilde_vec(refresh_messages, party_index, self, join_messages) ==
    [j \in 1..Len(refresh_messages) |->
        <<refresh_messages[j].party_index, refresh_messages[j].dlog_statement>>]
    \o << <<party_index, self.dlog_statement>> >>
    \o [j \in 1..Len(join_messages) |->
        <<unwrap(join_messages[j].party_index), join_messages[j].dlog_statement>>]

\* a map in which the first value of a key stays
HashMapGet_first(pairs, key) ==
    LET hits == {k \in 1..Len(pairs) : pairs[k][1] = key}
    IN  IF hits = {}
        THEN None
        ELSE Some(pairs[CHOOSE k \in hits : \A h \in hits : k <= h][2])

\* HashMap::get on a map collected from pairs: an insertion replaces the
\* value of an equal key
HashMapGet(pairs, key) ==
    LET hits == {k \in 1..Len(pairs) : pairs[k][1] = key}
    IN  IF hits = {}
        THEN None
        ELSE Some(pairs[CHOOSE k \in hits : \A h \in hits : h <= k][2])

\* EncryptionKey { n: BigInt::zero(), nn: BigInt::zero() }
ZeroKey == [n |-> 0, nn |-> 0]

\* the vector of keys with positions counted from 0
paillier_key_vec_from_zero(parties, n) ==
    [party \in 1..n |->
        IF HashMapGet(parties, party - 1) = None
        THEN ZeroKey
        ELSE unwrap(HashMapGet(parties, party - 1))]

\* collect, lines 221..232
paillier_key_vec_of(parties, n) ==
    [party \in 1..n |->
        IF HashMapGet(parties, party) = None
        THEN ZeroKey
        ELSE unwrap(HashMapGet(parties, party))]

\* collect, lines 234..243; fresh[party] is what generate_dlog_statement_proofs
\* returns when it is called for the position
h1_h2_ntilde_vec_of(statements, n, fresh) ==
    [party \in 1..n |->
        IF HashMapGet(statements, party) = None
        THEN fresh[party]
        ELSE unwrap(HashMapGet(statements, party))]

\* the comparison of the public keys stopping one message early
public_keys_agree_but_last(refresh_messages) ==
    \A j \in 1..(Len(refresh_messages) - 1) :
        refresh_messages[j].public_key = refresh_messages[1].public_key

\* collect, lines 247..251
public_keys_agree(refresh_messages) ==
    \A j \in 1..Len(refresh_messages) :
        refresh_messages[j].public_key = refresh_messages[1].public_key

\* VerifiableSS::share(t, n, secret).0 with the random coefficients explicit
VerifiableSS(t, n, secret, coefficients) ==
    [parameters  |-> [threshold |-> t, share_count |-> n],
     commitments |-> <<PointMul(Generator, secret)>>
                     \o [k \in 1..t |-> PointMul(Generator, coefficients[k])]]

\* collect, lines 156..270, once the three gates have passed
local_key_of(self, party_index, refresh_messages, paillier_key, join_messages, t, n, fresh, coefficients, other) ==
    LET sum          == get_ciphertext_sum(refresh_messages, party_index, t, paillier_key.ek)
        new_share    == Decrypt(paillier_key.dk, sum.cipher_text_sum, other)
        new_share_fe == ScalarFrom(new_share)
        parties      == available_parties(refresh_messages, party_index, paillier_key,
                                          join_messages)
        statements   == available_h1_h2_ntilde_vec(refresh_messages, party_index, self,
                                                   join_messages)
    IN  IF ~public_keys_agree(refresh_messages)
        THEN Err("BroadcastedPublicKeyError")
        ELSE Ok([paillier_dk       |-> paillier_key.dk,
                 pk_vec            |-> pk_vec_of(refresh_messages, sum.li_vec, t, n),
                 keys_linear       |-> [x_i |-> new_share_fe,
                                        y   |-> PointMul(Generator, new_share_fe)],
                 paillier_key_vec  |-> paillier_key_vec_of(parties, n),
                 y_sum_s           |-> refresh_messages[1].public_key,
                 h1_h2_n_tilde_vec |-> h1_h2_ntilde_vec_of(statements, n, fresh),
                 vss_scheme        |-> VerifiableSS(t, n, new_share_fe, coefficients),
                 i                 |-> party_index,
                 t                 |-> t,
                 n                 |-> n])

\* JoinMessage::collect
collect(self, refresh_messages, paillier_key, join_messages, t, n, fresh, coefficients, other) ==
    IF validate_collect(refresh_messages, t, n).tag = "Err"
    THEN validate_collect(refresh_messages, t, n)
    ELSE IF get_party_index(self).tag = "Err"
    THEN get_party_index(self)
    ELSE IF check_join_indices(join_messages).tag = "Err"
    THEN check_join_indices(join_messages)
    ELSE IF CiphertextIndexPanics(get_party_index(self).value, n)
    THEN Panic
    ELSE IF unwrap_panics(join_messages)
    THEN UnwrapPanic
    ELSE local_key_of(self, get_party_index(self).value, refresh_messages, paillier_key,
                      join_messages, t, n, fresh, coefficients, other)

-----------------------------------------------------------------------------
(* The parties of an epoch and the inputs of collect *)

\* the parties that join
Joiners == {1, 2}
NumJoiners == Cardinality(Joiners)

\* the threshold of the model
Threshold == 1

\* Paillier primes large enough for the sums of weighted shares
PaillierPrimes ==
    << <<11, 13>>, <<11, 17>>, <<11, 19>>, <<13, 17>>, <<13, 19>>, <<11, 23>>,
       <<13, 23>>, <<17, 19>>, <<17, 23>>, <<19, 23>>, <<11, 29>>, <<13, 29>> >>

Keypair(pq) ==
    [ek |-> [n |-> pq[1] * pq[2], nn |-> (pq[1] * pq[2]) * (pq[1] * pq[2])],
     dk |-> [p |-> pq[1], q |-> pq[2]]]

\* Keys::create(0) of joining party k, and the keys of the party that holds
\* position p before the epoch
JoinerKeys(k)   == Keypair(PaillierPrimes[k])
PositionKeys(p) == Keypair(PaillierPrimes[NumJoiners + 1 + p])

\* the tuples generate_h1_h2_n_tilde returns to distribute in this model
DistributeParams(k) ==
    {generate_h1_h2_n_tilde(kp, k + 1, xhi_) : kp \in RPKeypairs, xhi_ \in {3, 5}}

\* the statement of the party that holds position p before the epoch
PositionStatement(p) ==
    generate_dlog_statement_proofs(
        generate_h1_h2_n_tilde(CHOOSE kp \in Keypairs : kp.ek.n = 35, p + 1, 5)
    ).dlog_statement

\* the statements generate_dlog_statement_proofs returns for the positions
\* without a party in this model
FreshStatements ==
    {generate_dlog_statement_proofs(
         generate_h1_h2_n_tilde(CHOOSE kp \in Keypairs : kp.ek.n = 21, 2, xhi_)
     ).dlog_statement : xhi_ \in {5, 7}}

\* the coefficients VerifiableSS::share draws in this model
VssCoefficients == {3}

\* the argument of set_party_index
PartyIndices == 1..MaxN

\* the re-sharing polynomial of the party at position p: its constant term
\* is the party's share of the polynomial old, its other coefficients are cs
SharingPoly(old, p, cs) == <<Eval(old, p)>> \o cs

\* a batch of refresh messages: senders[j] sends message j with public key pks[j]
Batch(senders, pks, t, n, old, cs, ekAt) ==
    [refresh_messages |->
        [j \in 1..Len(senders) |->
            RefreshMessage(senders[j], SharingPoly(old, senders[j], cs[senders[j]]),
                           pks[j], PositionKeys(senders[j]).ek,
                           PositionStatement(senders[j]), n, ekAt)],
     t |-> t,
     n |-> n]

\* sequences without repetition of length len over the set S
RECURSIVE Arrangements(_, _)
Arrangements(S, len) ==
    IF len = 0
    THEN {<<>>}
    ELSE UNION {{<<x>> \o rest : rest \in Arrangements(S \ {x}, len - 1)} : x \in S}

\* the key under which position p receives its share when joining party k
\* is expected at position MaxN - NumJoiners + k
IntendedKeyAt ==
    [p \in 1..MaxN |->
        IF p > MaxN - NumJoiners
        THEN JoinerKeys(p - (MaxN - NumJoiners)).ek
        ELSE PositionKeys(p).ek]

\* fixed polynomials of degree t for the specifications that do not vary the
\* shares
FixedOld == <<3>> \o [k \in 1..Threshold |-> 1]
FixedCs  == [p \in 1..MaxN |-> [k \in 1..Threshold |-> IF k = 1 THEN p % CurveOrder ELSE 1]]

\* the batches the JoinMessage life cycle is run against
JoinBatches ==
    {Batch(senders, pks, Threshold, n, FixedOld, FixedCs, IntendedKeyAt) :
        senders \in {[j \in 1..len |-> j] : len \in {Threshold, Threshold + 1}},
        pks \in {[j \in 1..(Threshold + 1) |-> IF j > d THEN 2 ELSE 1] :
                    d \in {Threshold, Threshold + 1}},
        n \in {MaxN}}

-----------------------------------------------------------------------------
(* The life cycle of JoinMessages *)

NoneOf(S) == [k \in S |-> None]

JoinInit ==
    /\ joins = NoneOf(Joiners)
    /\ keys = NoneOf(Joiners)
    /\ lastSet = NoneOf(Joiners)
    /\ getResult = None
    /\ batch \in JoinBatches
    /\ localKey = None

Distribute(k) ==
    /\ joins[k] = None
    /\ \E params \in DistributeParams(k) :
         /\ joins' = [joins EXCEPT ![k] = distribute(JoinerKeys(k), params).join_message]
         /\ keys' = [keys EXCEPT ![k] = distribute(JoinerKeys(k), params).keys]
    /\ getResult' = None
    /\ localKey' = None
    /\ UNCHANGED <<lastSet, batch, rpVars, genVars>>

SetPartyIndex(k, new_party_index) ==
    /\ joins[k] # None
    /\ joins' = [joins EXCEPT ![k] = set_party_index(joins[k], new_party_index)]
    /\ lastSet' = [lastSet EXCEPT ![k] = Some(new_party_index)]
    /\ getResult' = None
    /\ localKey' = None
    /\ UNCHANGED <<keys, batch, rpVars, genVars>>

GetPartyIndex(k) ==
    /\ joins[k] # None
    /\ getResult' = [who |-> k, result |-> get_party_index(joins[k])]
    /\ UNCHANGED <<joins, keys, lastSet, batch, localKey, rpVars, genVars>>

\* the join messages party k can pass to collect: those of other parties
JoinMessageSeqs(k) ==
    LET others == {o \in Joiners \ {k} : joins[o] # None}
    IN  UNION {{[j \in 1..len |-> joins[a[j]]] : a \in Arrangements(others, len)} :
                  len \in 0..Cardinality(others)}

\* collect reaches its computations: no gate fails and no index panics
Computes(self, join_messages, b) ==
    /\ validate_collect(b.refresh_messages, b.t, b.n).tag = "Ok"
    /\ get_party_index(self).tag = "Ok"
    /\ check_join_indices(join_messages).tag = "Ok"
    /\ ~CiphertextIndexPanics(get_party_index(self).value, b.n)
    /\ ~unwrap_panics(join_messages)

\* the positions for which collect generates a statement
Missing(self, join_messages, b) ==
    {p \in 1..b.n :
        HashMapGet(available_h1_h2_ntilde_vec(b.refresh_messages,
                       get_party_index(self).value, self, join_messages), p) = None}

\* what the calls of generate_dlog_statement_proofs in collect can return
FreshChoices(self, join_messages, b) ==
    LET f0 == CHOOSE f \in FreshStatements : TRUE
        ps == IF Computes(self, join_messages, b)
              THEN Missing(self, join_messages, b)
              ELSE {}
    IN  {[p \in 1..b.n |-> IF p \in ps THEN g[p] ELSE f0] : g \in [ps -> FreshStatements]}

\* what Paillier::decrypt can return in collect for a sum that is not of the
\* key of the party: any scalar
OtherChoices(self, paillier_key, join_messages, b) ==
    IF /\ Computes(self, join_messages, b)
       /\ get_ciphertext_sum(b.refresh_messages, get_party_index(self).value, b.t,
                             paillier_key.ek).cipher_text_sum.n # paillier_key.ek.n
    THEN 0..(CurveOrder - 1)
    ELSE {0}

Collect(k) ==
    /\ joins[k] # None
    /\ localKey = None
    /\ \E join_messages \in JoinMessageSeqs(k) :
         \E fresh \in FreshChoices(joins[k], join_messages, batch) :
           \E coefficients \in [1..batch.t -> VssCoefficients] :
             \E other \in OtherChoices(joins[k], keys[k], join_messages, batch) :
               localKey' =
                   [who |-> k,
                    join_messages |-> join_messages,
                    result |-> collect(joins[k], batch.refresh_messages, keys[k],
                                       join_messages, batch.t, batch.n, fresh,
                                       coefficients, other)]
    /\ UNCHANGED <<joins, keys, lastSet, getResult, batch, rpVars, genVars>>

JoinNext ==
    \E k \in Joiners :
        \/ Distribute(k)
        \/ \E i \in PartyIndices : SetPartyIndex(k, i)
        \/ GetPartyIndex(k)
        \/ Collect(k)

\* the state after construction: nothing generated, proved or distributed
Init == RPInit /\ GenInit /\ JoinInit

SpecJoin == Init /\ [][JoinNext]_vars

\* C6: get_party_index fails with NewPartyUnassignedIndexError on a message
\* of distribute as long as set_party_index has not been called, and returns
\* exactly the most recently set index afterwards.
C6_IndexAssignment ==
    getResult # None =>
        IF lastSet[getResult.who] = None
        THEN getResult.result = Err("NewPartyUnassignedIndexError")
        ELSE getResult.result = Ok(unwrap(lastSet[getResult.who]))

\* C6 witness: get_party_index has returned the index that was set
C6_Witness ==
    /\ getResult # None
    /\ getResult.result.tag = "Ok"
    /\ lastSet[getResult.who] = Some(getResult.result.value)

\* C7: once party_index is Some(i) no operation changes it, and no operation
\* changes any other field of a JoinMessage.
C7_WrittenOnce ==
    [][\A k \in Joiners :
          joins[k] # None =>
              /\ joins[k].party_index # None => joins'[k] = joins[k]
              /\ [joins'[k] EXCEPT !.party_index = None]
                     = [joins[k] EXCEPT !.party_index = None]]_vars

-----------------------------------------------------------------------------
(* collect as a function of its arguments *)

\* a fixed tuple of generate_h1_h2_n_tilde for the message of party k
FixedParams(k) == CHOOSE params \in DistributeParams(k) : TRUE

\* the message of party k after distribute and, for Some(i), set_party_index(i)
JoinMessageWith(k, index) ==
    IF index = None
    THEN distribute(JoinerKeys(k), FixedParams(k)).join_message
    ELSE set_party_index(distribute(JoinerKeys(k), FixedParams(k)).join_message,
                         unwrap(index))

\* the indices of the joining parties at a call of collect: none, that of an
\* existing party, position n or an inner position, or one beyond n
CollectIndices == {1, MaxN - 1, MaxN}
OptionalIndices == {None} \cup {Some(i) : i \in CollectIndices}

\* the key under which the senders encrypt the share of position p: that of
\* the joining party assigned to p, else that of the party that held p
KeyAt(index) ==
    [p \in 1..MaxN |->
        IF \E k \in Joiners : index[k] = Some(p)
        THEN JoinerKeys(CHOOSE k \in Joiners : index[k] = Some(p)).ek
        ELSE PositionKeys(p).ek]

\* the group public key of the fixed polynomial, and another point
FixedPublicKey == PointMul(Generator, Eval(FixedOld, 0))
OtherPublicKey == PointAdd(FixedPublicKey, Generator)

\* the public keys of a batch of len messages: all equal, or one that differs
PublicKeyPatterns(len) ==
    {[j \in 1..len |-> IF j = d THEN OtherPublicKey ELSE FixedPublicKey] : d \in 0..len}

\* lengths of the batches
BatchLengths == 1..(Threshold + 2)

CollectBatches(index) ==
    UNION {UNION {{Batch(senders, pks, Threshold, n, FixedOld, FixedCs, KeyAt(index)) :
                      senders \in Arrangements(1..n, len), pks \in PublicKeyPatterns(len)} :
                  len \in BatchLengths} :
           n \in {MaxN - 1, MaxN}}

CollectInit ==
    \E index \in [Joiners -> OptionalIndices] :
        /\ joins = [k \in Joiners |-> JoinMessageWith(k, index[k])]
        /\ keys = [k \in Joiners |-> JoinerKeys(k)]
        /\ lastSet = index
        /\ getResult = None
        /\ batch \in CollectBatches(index)
        /\ localKey = None

CollectNext == \E k \in Joiners : Collect(k)

\* a call of collect on arguments of CollectInit
InitCollect == RPInit /\ GenInit /\ CollectInit

SpecCollect == InitCollect /\ [][CollectNext]_vars

\* the collect call of localKey
Collected      == localKey # None
CollectedOk    == localKey # None /\ localKey.result.tag = "Ok"
Self           == joins[localKey.who]
BatchValidated == validate_collect(batch.refresh_messages, batch.t, batch.n).tag = "Ok"
IndicesAssigned ==
    /\ Self.party_index # None
    /\ \A j \in 1..Len(localKey.join_messages) :
           localKey.join_messages[j].party_index # None

C5_YSumIsEveryPublicKey ==
    CollectedOk =>
        \A j \in 1..Len(batch.refresh_messages) :
            batch.refresh_messages[j].public_key = localKey.result.value.y_sum_s

\* C5 witness: collect has succeeded on a batch of three messages
C5_Witness ==
    /\ CollectedOk
    /\ Len(batch.refresh_messages) = 3
    /\ localKey.result.value.y_sum_s = batch.refresh_messages[3].public_key

\* the (key, statement) pairs of the parties with index p among the refresh
\* messages, the collecting party and the supplied join messages
SourcesAt(p) ==
    {<<batch.refresh_messages[j].ek, batch.refresh_messages[j].dlog_statement>> :
        j \in {j \in 1..Len(batch.refresh_messages) :
                  batch.refresh_messages[j].party_index = p}}
    \cup (IF Self.party_index = Some(p)
          THEN {<<keys[localKey.who].ek, Self.dlog_statement>>}
          ELSE {})
    \cup {<<localKey.join_messages[j].ek, localKey.join_messages[j].dlog_statement>> :
        j \in {j \in 1..Len(localKey.join_messages) :
                  localKey.join_messages[j].party_index = Some(p)}}

\* st is a statement generate_dlog_statement_proofs can return
IsGenerated(st) ==
    \E kp \in Keypairs :
        /\ st.N = kp.ek.n
        /\ st.g \in sample_below(kp.ek.n)
        /\ \E xhi_ \in sample_below((kp.dk.p - 1) * (kp.dk.q - 1)) :
             /\ mod_inv(xhi_, (kp.dk.p - 1) * (kp.dk.q - 1)) # None
             /\ st.ni = mod_pow(st.g, xhi_, kp.ek.n)

\* C8: when collect succeeds, pk_vec, paillier_key_vec and h1_h2_n_tilde_vec
\* have n entries; entry p is the key and statement of a party with index p
\* if there is one, else the zero key and a freshly generated statement.
C8_VectorsByPosition ==
    CollectedOk =>
        LET key == localKey.result.value
        IN  /\ Len(key.pk_vec) = batch.n
            /\ Len(key.paillier_key_vec) = batch.n
            /\ Len(key.h1_h2_n_tilde_vec) = batch.n
            /\ \A p \in 1..batch.n :
                 IF SourcesAt(p) # {}
                 THEN <<key.paillier_key_vec[p], key.h1_h2_n_tilde_vec[p]>> \in SourcesAt(p)
                 ELSE /\ key.paillier_key_vec[p] = ZeroKey
                      /\ IsGenerated(key.h1_h2_n_tilde_vec[p])

\* C8 witness: collect has succeeded with position n taken from a supplied
\* join message and another position filled with placeholders
C8_Witness ==
    /\ CollectedOk
    /\ \E j \in 1..Len(localKey.join_messages) :
         /\ localKey.join_messages[j].party_index = Some(batch.n)
         /\ localKey.result.value.paillier_key_vec[batch.n] = localKey.join_messages[j].ek
         /\ localKey.result.value.h1_h2_n_tilde_vec[batch.n]
                = localKey.join_messages[j].dlog_statement
    /\ \E p \in 1..batch.n :
         /\ SourcesAt(p) = {}
         /\ localKey.result.value.paillier_key_vec[p] = ZeroKey

\* C9: collect fails with NewPartyUnassignedIndexError whenever the batch
\* passes validate_collect and the collecting party or a supplied join
\* message has no index.
C9_UnassignedIndex ==
    (Collected /\ BatchValidated /\ ~IndicesAssigned)
        => localKey.result = Err("NewPartyUnassignedIndexError")

\* C9 witness: collect has failed because a supplied join message has no
\* index, the collecting party having one
C9_Witness ==
    /\ Collected
    /\ BatchValidated
    /\ Self.party_index # None
    /\ ~IndicesAssigned
    /\ localKey.result = Err("NewPartyUnassignedIndexError")

\* the orders in which k terms can be accumulated
Orders(k) == {f \in [1..k -> 1..k] : \A x, y \in 1..k : f[x] = f[y] => x = y}

\* point addition of the terms taken in the given order
RECURSIVE SumInOrder(_, _)
SumInOrder(terms, order) ==
    IF order = <<>>
    THEN 0
    ELSE PointAdd(terms[order[1]], SumInOrder(terms, Tail(order)))

\* C12: when collect succeeds, every entry of pk_vec is the sum over exactly
\* the first t+1 refresh messages of their committed point of the position
\* scaled by their Lagrange coefficient: the messages after them do not
\* enter it, and the terms give it in whichever order they are added.
C12_PkVecOfFirstContributors ==
    CollectedOk =>
        LET first  == SubSeq(batch.refresh_messages, 1, batch.t + 1)
            li_vec == get_ciphertext_sum(first, unwrap(Self.party_index), batch.t,
                                         keys[localKey.who].ek).li_vec
            terms  == [i \in 1..batch.n |->
                          [j \in 1..(batch.t + 1) |->
                              PointMul(first[j].points_committed_vec[i], li_vec[j])]]
        IN  /\ Len(localKey.result.value.pk_vec) = batch.n
            /\ \A i \in 1..batch.n :
                   \A order \in Orders(batch.t + 1) :
                       localKey.result.value.pk_vec[i] = SumInOrder(terms[i], order)

\* C12 witness: collect has succeeded on a batch with a message after the
\* first t+1 whose committed points are not those of any of the first
C12_Witness ==
    /\ CollectedOk
    /\ Len(batch.refresh_messages) = batch.t + 2
    /\ \A j \in 1..(batch.t + 1) :
           batch.refresh_messages[j].points_committed_vec
               # batch.refresh_messages[batch.t + 2].points_committed_vec
    /\ \E i \in 1..batch.n : localKey.result.value.pk_vec[i] # 0

\* the sources of the merge in their order: the refresh messages in input
\* order, the collecting party, the supplied join messages in input order
MergeSources ==
    [j \in 1..Len(batch.refresh_messages) |->
        [index     |-> batch.refresh_messages[j].party_index,
         ek        |-> batch.refresh_messages[j].ek,
         statement |-> batch.refresh_messages[j].dlog_statement]]
    \o << [index     |-> unwrap(Self.party_index),
           ek        |-> keys[localKey.who].ek,
           statement |-> Self.dlog_statement] >>
    \o [j \in 1..Len(localKey.join_messages) |->
        [index     |-> unwrap(localKey.join_messages[j].party_index),
         ek        |-> localKey.join_messages[j].ek,
         statement |-> localKey.join_messages[j].dlog_statement]]

\* C16: when collect succeeds and an index occurs in more than one source of
\* the merge, the entries of paillier_key_vec and h1_h2_n_tilde_vec at its
\* position are those of the latest source with the index, in the order
\* refresh messages, collecting party, supplied join messages.
C16_LatestSourceWins ==
    CollectedOk =>
        \A p \in 1..batch.n :
            \A k \in 1..Len(MergeSources) :
                (/\ MergeSources[k].index = p
                 /\ \A h \in (k + 1)..Len(MergeSources) : MergeSources[h].index # p)
                    => /\ localKey.result.value.paillier_key_vec[p] = MergeSources[k].ek
                       /\ localKey.result.value.h1_h2_n_tilde_vec[p]
                              = MergeSources[k].statement

\* C16 witness: collect has succeeded with a supplied join message that
\* carries the index of the collecting party or that of a refresh message,
\* and the position holds the key and the
\* statement of the join message, not those of the party it replaces
C16_Witness ==
    /\ CollectedOk
    /\ Len(localKey.join_messages) = 1
    /\ LET jm == localKey.join_messages[1]
           p  == unwrap(jm.party_index)
       IN  /\ \/ jm.party_index = Self.party_index
              \/ \E j \in 1..Len(batch.refresh_messages) :
                     batch.refresh_messages[j].party_index = p
           /\ localKey.result.value.paillier_key_vec[p] = jm.ek
           /\ localKey.result.value.h1_h2_n_tilde_vec[p] = jm.dlog_statement
           /\ jm.ek # keys[localKey.who].ek
           /\ \A j \in 1..Len(batch.refresh_messages) :
                  /\ batch.refresh_messages[j].ek # jm.ek
                  /\ batch.refresh_messages[j].dlog_statement # jm.dlog_statement

\* C17: the two unwrap calls of the merge never meet an unassigned index:
\* no call of collect ends in their panic, and a call with a supplied join
\* message without index ends in an error before the merge (that of
\* validate_collect or NewPartyUnassignedIndexError).
C17_UnwrapNeverPanics ==
    Collected =>
        /\ localKey.result # UnwrapPanic
        /\ (\E j \in 1..Len(localKey.join_messages) :
                localKey.join_messages[j].party_index = None)
               => /\ localKey.result.tag = "Err"
                  /\ BatchValidated
                         => localKey.result = Err("NewPartyUnassignedIndexError")

\* C17 witness: collect was called by a party with an index within 1..n on
\* a valid batch with one join message without index, and has returned
\* NewPartyUnassignedIndexError
C17_Witness ==
    /\ Collected
    /\ BatchValidated
    /\ Self.party_index # None
    /\ unwrap(Self.party_index) \in 1..batch.n
    /\ Len(localKey.join_messages) = 1
    /\ localKey.join_messages[1].party_index = None
    /\ localKey.result = Err("NewPartyUnassignedIndexError")

-----------------------------------------------------------------------------
(* collect in an honest epoch *)

\* the coefficients above the constant term of a re-sharing polynomial: three
\* choices of the first, the others 1
CoefficientSeqs ==
    {[k \in 1..Threshold |-> IF k = 1 THEN c ELSE 1] : c \in {0, 1, 3}}

\* the polynomials that share the group secret before the epoch
OldPolys ==
    {<<secret>> \o [k \in 1..Threshold |-> 1] : secret \in {0, 1, CurveOrder - 1}}

\* the coefficients of the senders: every choice for the first t+1 messages,
\* two choices for a later message
SenderCoefficients(senders) ==
    {[p \in 1..MaxN |->
         IF \E j \in 1..Len(senders) : senders[j] = p
         THEN choice[CHOOSE j \in 1..Len(senders) : senders[j] = p]
         ELSE [k \in 1..Threshold |-> 0]] :
        choice \in {c \in [1..Len(senders) -> CoefficientSeqs \cup
                                              {[k \in 1..Threshold |-> 2]}] :
                       /\ \A j \in 1..(Threshold + 1) : c[j] \in CoefficientSeqs
                       /\ \A j \in (Threshold + 2)..Len(senders) :
                              c[j] \in {[k \in 1..Threshold |-> 1],
                                        [k \in 1..Threshold |-> 2]}}}

\* the indices of an epoch in which the parties 1..joining join a group that
\* keeps the positions below them
HonestIndex(joining) ==
    [k \in Joiners |-> IF k <= joining THEN Some(MaxN - joining + k) ELSE None]

HonestBatches(joining) ==
    UNION {UNION {{Batch(senders, [j \in 1..len |-> PointMul(Generator, Eval(old, 0))],
                         Threshold, MaxN, old, cs, KeyAt(HonestIndex(joining))) :
                      cs \in SenderCoefficients(senders), old \in OldPolys} :
                  senders \in Arrangements(1..(MaxN - joining), len)} :
           len \in {l \in BatchLengths : Threshold < l /\ l <= MaxN - joining}}

RefreshInit ==
    \E joining \in 1..NumJoiners :
        /\ joins = [k \in Joiners |->
                       IF k <= joining
                       THEN JoinMessageWith(k, HonestIndex(joining)[k])
                       ELSE None]
        /\ keys = [k \in Joiners |-> IF k <= joining THEN JoinerKeys(k) ELSE None]
        /\ lastSet = HonestIndex(joining)
        /\ getResult = None
        /\ batch \in HonestBatches(joining)
        /\ localKey = None

\* a call of collect in an honest epoch
InitRefresh == RPInit /\ GenInit /\ RefreshInit

SpecRefresh == InitRefresh /\ [][CollectNext]_vars

\* what collect returns to party k for the join messages it may pass, with
\* the first of the random choices
CollectResults(k) ==
    {collect(joins[k], batch.refresh_messages, keys[k], join_messages, batch.t, batch.n,
             [p \in 1..batch.n |-> CHOOSE f \in FreshStatements : TRUE],
             [j \in 1..batch.t |-> CHOOSE c \in VssCoefficients : TRUE], 0) :
        join_messages \in JoinMessageSeqs(k)}

\* C4: in an honest epoch every collect succeeds, the keys_linear.y of the
\* party with index i is pk_vec[i-1], and every party obtains the same
\* y_sum_s and the same pk_vec from the batch.
C4_RoundTrip ==
    Collected =>
        /\ localKey.result.tag = "Ok"
        /\ localKey.result.value.keys_linear.y
               = localKey.result.value.pk_vec[localKey.result.value.i]
        /\ \A k \in {j \in Joiners : joins[j] # None} :
             \A other \in CollectResults(k) :
                /\ other.tag = "Ok"
                /\ other.value.y_sum_s = localKey.result.value.y_sum_s
                /\ other.value.pk_vec = localKey.result.value.pk_vec

\* C4 witness: a party has collected in an epoch with a second joining party,
\* and its share is neither zero nor that of the other party
C4_Witness ==
    /\ CollectedOk
    /\ \A k \in Joiners : joins[k] # None
    /\ localKey.result.value.keys_linear.x_i # 0
    /\ \E k \in Joiners \ {localKey.who} :
         \E other \in CollectResults(k) :
            other.value.keys_linear.x_i # localKey.result.value.keys_linear.x_i

SpecRP  == Init /\ [][RPNext]_vars
SpecGen == Init /\ [][GenNext]_vars

\* the generator with fair sampling: an invertible candidate, which every
\* iteration can draw, is drawn eventually
SpecGenFair ==
    Init /\ [][GenNext]_vars /\ WF_vars(GenKeypair) /\ WF_vars(GenReturn)
         /\ WF_vars(GenDlogProofs)

\* C15: under fair sampling the loop of generate_h1_h2_n_tilde ends: from
\* the loop the function eventually returns, the exponent it leaves the loop
\* with and the one it returns are invertible modulo phi(N), and there is no
\* outcome other than the return of the tuple.
C15_LoopTerminates ==
    /\ (genPc = "loop") ~> (genPc = "returned")
    /\ [](genPc \in {"start", "loop", "returned", "proved"})
    /\ [](genPc \in {"returned", "proved"} =>
              /\ mod_inv(gen.xhi_, gen.phi) # None
              /\ mod_inv(genOut.xhi, gen.phi) # None
              /\ genOut # None)

\* C15 witness: the function has returned after its loop had continued on a
\* candidate without inverse
C15_Witness ==
    /\ genPc = "returned"
    /\ gen.continued
    /\ mod_inv(gen.xhi_, gen.phi) # None

====
